---- MODULE Spec2Model ----
(***************************************************************************)
(* rpl/mappers.h: positional selectors, value wrappers and the composers   *)
(* the overloaded operators build from them.                               *)
(*                                                                         *)
(* A value is a record [ty, v].  ty is the C++ type of the value:          *)
(*   "int"  - int, v the number;                                           *)
(*   "bool" - bool, v in {0, 1};                                           *)
(*   "str"  - std::string over the one-letter alphabet {a}, v its length   *)
(*            (concatenation adds lengths, the lexicographic order is the  *)
(*            order of the lengths, the moved-from string is empty);       *)
(*   "trap" - the run ended in an integer division by zero.                *)
(* An argument object is a record [cat, ty, v]: cat is how the caller      *)
(* passes it ("lvalue": T&, "const": const T&, "rvalue": T&&).             *)
(***************************************************************************)
EXTENDS Integers, Sequences, FiniteSets, TLC

VARIABLES
    mapper,     \* the operand under construction: a mapper or a plain value
    operand,    \* a second operand, waiting for a binary operator
    args,       \* the argument list of the current call, as passed
    objs,       \* the caller's argument objects, as the call leaves them
    result,     \* what the call returned
    trace,      \* the calls and operator applications of the invocation
    last,       \* the operator expression evaluated last, and its operands
    pc          \* "build", "native", "invoked", "rejected", "mutated"

vars == <<mapper, operand, args, objs, result, trace, last, pc>>

(***************************************************************************)
(* Bounds of the model.                                                    *)
(***************************************************************************)
\* longest argument list of a call of a composer
MaxArgs == 2
\* deepest composer tree of the nesting specification
MaxDepth == 2
\* how many arguments beyond the last named selector's a call may pass
ExtraArgs == 1

(***************************************************************************)
(* Values.                                                                 *)
(***************************************************************************)
Int_(n) == [ty |-> "int", v |-> n]
Bool_(b) == [ty |-> "bool", v |-> IF b THEN 1 ELSE 0]
Str_(n) == [ty |-> "str", v |-> n]
Trap == [ty |-> "trap", v |-> 0]
None == [ty |-> "none", v |-> 0]

IsArith(ty) == ty \in {"int", "bool"}

\* contextual conversion of an arithmetic value to bool
Truth(x) == x.v # 0

Abs(n) == IF n < 0 THEN -n ELSE n

\* int / int truncates towards zero
Quot(a, b) ==
    LET q == Abs(a) \div Abs(b)
    IN  IF (a < 0) = (b < 0) THEN q ELSE -q

\* int % int: the sign of the dividend
Rem(a, b) == a - b * Quot(a, b)

\* the bitwise operators on two's complement integers of any width
RECURSIVE BitAnd(_, _)
BitAnd(a, b) ==
    IF a = 0 \/ b = 0 THEN 0
    ELSE IF a = -1 THEN b
    ELSE IF b = -1 THEN a
    ELSE 2 * BitAnd(a \div 2, b \div 2) + (a % 2) * (b % 2)

RECURSIVE BitOr(_, _)
BitOr(a, b) ==
    IF a = 0 THEN b
    ELSE IF b = 0 THEN a
    ELSE IF a = -1 \/ b = -1 THEN -1
    ELSE 2 * BitOr(a \div 2, b \div 2)
         + (IF a % 2 = 1 \/ b % 2 = 1 THEN 1 ELSE 0)

RECURSIVE BitXor(_, _)
BitXor(a, b) ==
    IF a = 0 THEN b
    ELSE IF b = 0 THEN a
    ELSE IF a = -1 THEN -b - 1
    ELSE IF b = -1 THEN -a - 1
    ELSE 2 * BitXor(a \div 2, b \div 2)
         + (IF (a % 2) # (b % 2) THEN 1 ELSE 0)

(***************************************************************************)
(* The operators of the overload set, named after the functor each         *)
(* operator function hands to its composer.                                *)
(***************************************************************************)
ArithmeticOps == {"plus", "minus", "multiplies", "divides", "modulus"}
ComparisonOps ==
    {"less", "less_equal", "greater", "greater_equal", "equal_to",
     "not_equal_to"}
LogicalOps == {"logical_and", "logical_or"}
BitwiseOps == {"bit_and", "bit_or", "bit_xor"}
BinaryOps == ArithmeticOps \cup ComparisonOps \cup LogicalOps \cup BitwiseOps
UnaryOps == {"negate", "logical_not", "bit_not"}

\* The type of Operator{}(l, r) for operands of types lt and rt; "ill" when
\* the expression is ill-formed.
BinaryType(op, lt, rt) ==
    IF IsArith(lt) /\ IsArith(rt)
    THEN IF op \in ComparisonOps \cup LogicalOps THEN "bool" ELSE "int"
    ELSE IF lt = "str" /\ rt = "str"
    THEN IF op = "plus" THEN "str"
         ELSE IF op \in ComparisonOps THEN "bool"
         ELSE "ill"
    ELSE "ill"

UnaryType(op, ty) ==
    IF IsArith(ty)
    THEN IF op = "logical_not" THEN "bool" ELSE "int"
    ELSE "ill"

Compare(op, a, b) ==
    CASE op = "less" -> a < b
      [] op = "less_equal" -> a <= b
      [] op = "greater" -> a > b
      [] op = "greater_equal" -> a >= b
      [] op = "equal_to" -> a = b
      [] op = "not_equal_to" -> a # b

\* Operator{}(x, y) on two values, for a well-formed application: the set
\* of results the build can produce.  An integer division by zero is
\* undefined: the division instruction traps, or it yields 0 (and the
\* remainder computed from it is the dividend).
NativeBinary(op, x, y) ==
    IF x.ty = "str"
    THEN IF op = "plus"
         THEN {Str_(x.v + y.v)}
         ELSE {Bool_(Compare(op, x.v, y.v))}
    ELSE CASE op = "plus" -> {Int_(x.v + y.v)}
           [] op = "minus" -> {Int_(x.v - y.v)}
           [] op = "multiplies" -> {Int_(x.v * y.v)}
           [] op = "divides" ->
                IF y.v = 0 THEN {Trap, Int_(0)}
                ELSE {Int_(Quot(x.v, y.v))}
           [] op = "modulus" ->
                IF y.v = 0 THEN {Trap, Int_(x.v)}
                ELSE {Int_(Rem(x.v, y.v))}
           [] op \in ComparisonOps -> {Bool_(Compare(op, x.v, y.v))}
           [] op = "logical_and" -> {Bool_(Truth(x) /\ Truth(y))}
           [] op = "logical_or" -> {Bool_(Truth(x) \/ Truth(y))}
           [] op = "bit_and" -> {Int_(BitAnd(x.v, y.v))}
           [] op = "bit_or" -> {Int_(BitOr(x.v, y.v))}
           [] op = "bit_xor" -> {Int_(BitXor(x.v, y.v))}

NativeUnary(op, x) ==
    CASE op = "negate" -> {Int_(-x.v)}
      [] op = "logical_not" -> {Bool_(~Truth(x))}
      [] op = "bit_not" -> {Int_(-x.v - 1)}

(***************************************************************************)
(* Mappers.  A mapper is a record whose kind names its class; a plain      *)
(* (non-mapper) operand of an operator is [kind |-> "plain", value |-> v]. *)
(***************************************************************************)
NoOperand == [kind |-> "none"]
PlainValue(v) == [kind |-> "plain", value |-> v]

MapperKinds ==
    {"argument_mapper", "value_mapper", "unary_operator_mapper",
     "binary_operator_mapper"}

\* std::is_base_of_v<base_mapper, std::decay_t<Type>>
is_mapper_v(x) == x.kind \in MapperKinds

argument_mapper(Index) == [kind |-> "argument_mapper", Index |-> Index]

value_mapper(value) == [kind |-> "value_mapper", value |-> value]

make_value_mapper(value) == value_mapper(value)

\* (a variant: the wrapper of a plain operand is value-initialised)
wrap_mapper_empty(x) ==
    IF is_mapper_v(x) THEN x
    ELSE value_mapper([ty |-> x.value.ty, v |-> 0])

\* wrap_mapper_t<std::decay_t<Type>>: the member a composer keeps for an
\* operand of type Type
wrap_mapper(x) == IF is_mapper_v(x) THEN x ELSE value_mapper(x.value)

unary_operator_mapper(op, value) ==
    [kind |-> "unary_operator_mapper", op |-> op, value |-> wrap_mapper(value)]

binary_operator_mapper(op, left, right) ==
    [kind |-> "binary_operator_mapper", op |-> op,
     left |-> wrap_mapper(left), right |-> wrap_mapper(right)]

\* the twenty named selectors $1 .. $20
NumSelectors == 20
Selector(k) == argument_mapper(k - 1)

\* $val(value)
Val(value) == make_value_mapper(value)

RECURSIVE Depth(_)
Depth(m) ==
    CASE m.kind = "unary_operator_mapper" -> 1 + Depth(m.value)
      [] m.kind = "binary_operator_mapper" ->
            1 + (IF Depth(m.left) > Depth(m.right)
                 THEN Depth(m.left) ELSE Depth(m.right))
      [] OTHER -> 0

(***************************************************************************)
(* Which calls are viable: the conditions of the operator() templates.     *)
(***************************************************************************)
\* (a variant: the comparison admits a list of Index arguments)
argument_mapper_viable_loose(Index, n) == n >= Index

\* argument_mapper<Index>::operator(): enable_if (sizeof...(Args) > Index);
\* argument_mapper<0>::operator() takes Arg and a pack, so at least one.
argument_mapper_viable(Index, n) ==
    IF Index = 0 THEN n >= 1 ELSE n > Index

\* argument_mapper<Index>::call(Arg, Args...): enable_if
\* (sizeof...(Args) >= Index), Args the arguments after the first;
\* argument_mapper<0>::call takes Arg and a pack.
argument_mapper_call_viable(Index, n) ==
    IF Index = 0 THEN n >= 1 ELSE n >= 1 /\ n - 1 >= Index

\* The references a call passes: the positions of the caller's objects.
Refs(os) == [i \in 1 .. Len(os) |-> i]

\* (a variant: the recursion passes the whole pack on, arg included)
RECURSIVE argument_mapper_call_keeps_first(_, _)
argument_mapper_call_keeps_first(Index, refs) ==
    IF ~argument_mapper_call_viable(Index, Len(refs)) THEN 0
    ELSE IF Index = 0 THEN Head(refs)
    ELSE argument_mapper_call_keeps_first(Index - 1, SubSeq(refs, 1, Len(refs) - 1))

\* argument_mapper<Index>::call on the references refs: the reference it
\* returns (decltype(auto)), 0 when the call is ill-formed.
RECURSIVE argument_mapper_call(_, _)
argument_mapper_call(Index, refs) ==
    IF ~argument_mapper_call_viable(Index, Len(refs)) THEN 0
    ELSE IF Index = 0 THEN Head(refs)
    ELSE argument_mapper_call(Index - 1, Tail(refs))

\* The return type of argument_mapper<Index>::operator(), deduced (auto)
\* from the call of call in its body; "error" when that call is ill-formed.
ReturnType(Index, a) ==
    LET ref == argument_mapper_call(Index, Refs(a))
    IN  IF ref = 0 THEN "error" ELSE a[ref].ty

\* (a variant: the Result of a binary composer looks at its left operand's
\* call alone when the right operand's is not viable)
RECURSIVE ResultType_left_only(_, _)
ResultType_left_only(m, a) ==
    CASE m.kind = "argument_mapper" ->
            IF argument_mapper_viable(m.Index, Len(a))
            THEN ReturnType(m.Index, a) ELSE "ill"
      [] m.kind = "value_mapper" -> m.value.ty
      [] m.kind = "unary_operator_mapper" ->
            LET t == ResultType_left_only(m.value, a)
            IN  IF t = "ill" THEN "ill" ELSE UnaryType(m.op, t)
      [] m.kind = "binary_operator_mapper" ->
            LET lt == ResultType_left_only(m.left, a)
                rt == ResultType_left_only(m.right, a)
            IN  IF lt = "ill" THEN "ill"
                ELSE IF rt = "ill" THEN lt
                ELSE BinaryType(m.op, lt, rt)

\* The type of m(args...), "ill" when the call is not viable: the conditions
\* of the templates and the default template argument Result of the
\* composers, which is the type of the operator applied to the operands'
\* results.
RECURSIVE ResultType(_, _)
ResultType(m, a) ==
    CASE m.kind = "argument_mapper" ->
            IF argument_mapper_viable(m.Index, Len(a))
            THEN ReturnType(m.Index, a) ELSE "ill"
      [] m.kind = "value_mapper" -> m.value.ty
      [] m.kind = "unary_operator_mapper" ->
            LET t == ResultType(m.value, a)
            IN  IF t = "ill" THEN "ill" ELSE UnaryType(m.op, t)
      [] m.kind = "binary_operator_mapper" ->
            LET lt == ResultType(m.left, a)
                rt == ResultType(m.right, a)
            IN  IF lt = "ill" \/ rt = "ill" THEN "ill"
                ELSE BinaryType(m.op, lt, rt)

Viable(m, a) == ResultType(m, a) # "ill"

(***************************************************************************)
(* Invocation.  An invocation of a mapper on the caller's objects os has a *)
(* set of outcomes [res, objs, trace]: the value returned, the objects as  *)
(* the invocation leaves them, and the events of the invocation.  node     *)
(* numbers the mapper within the composer invoked: the root is 1, the left *)
(* (or only) operand of node n is 2n, the right operand 2n + 1.            *)
(***************************************************************************)
\* events: mapper node was called and received the objects os; the operator
\* of composer node was applied
CallEv(node, os) == [node |-> node, ev |-> "call", os |-> os]
ApplyEv(node) == [node |-> node, ev |-> "apply", os |-> <<>>]

ValueOfObject(o) == [ty |-> o.ty, v |-> o.v]

\* The move constructor of the object's type: a string is left empty, a
\* scalar as it was.
MovedFrom(o) == IF o.ty = "str" THEN [o EXCEPT !.v = 0] ELSE o

\* A function returning auto initialises its result from
\* std::forward<Arg>(arg): the move constructor for an rvalue argument, the
\* copy constructor otherwise.
\* (ref = 0: the body is ill-formed, nothing is returned).
ReturnByValue(os, ref) ==
    IF ref = 0 THEN [res |-> None, objs |-> os]
    ELSE [res |-> ValueOfObject(os[ref]),
          objs |-> IF os[ref].cat = "rvalue"
                   THEN [os EXCEPT ![ref] = MovedFrom(os[ref])]
                   ELSE os]

\* (a variant: operator() declared decltype(auto) returns the reference)
argument_mapper_invoke_reference(Index, os, node) ==
    [res |-> [ty |-> "ref", v |-> argument_mapper_call(Index, Refs(os))],
     objs |-> os, trace |-> <<CallEv(node, os)>>]

\* argument_mapper<Index>::operator()
argument_mapper_invoke(Index, os, node) ==
    LET ref == argument_mapper_call(Index, Refs(os))
        r == ReturnByValue(os, ref)
    IN  [res |-> r.res, objs |-> r.objs, trace |-> <<CallEv(node, os)>>]

\* (a variant: the wrapper forwards its first argument when it has one)
value_mapper_invoke_first(value, os, node) ==
    IF Len(os) = 0
    THEN [res |-> value, objs |-> os, trace |-> <<CallEv(node, os)>>]
    ELSE [res |-> ValueOfObject(os[1]), objs |-> os,
          trace |-> <<CallEv(node, os)>>]

\* value_mapper::operator()
value_mapper_invoke(value, os, node) ==
    [res |-> value, objs |-> os, trace |-> <<CallEv(node, os)>>]

RECURSIVE Invoke(_, _, _)

\* unary_operator_mapper::operator()
unary_operator_mapper_invoke(m, os, node) ==
    UNION { IF o.res = Trap
            THEN {[o EXCEPT !.trace = <<CallEv(node, os)>> \o o.trace]}
            ELSE { [res |-> v, objs |-> o.objs,
                    trace |-> <<CallEv(node, os)>> \o o.trace
                              \o <<ApplyEv(node)>>] :
                   v \in NativeUnary(m.op, o.res) } :
            o \in Invoke(m.value, os, 2 * node) }

\* The operands of Operator{}(first, second) evaluated one after the other
\* and the operator applied; an operand that traps ends the run.
Sequenced(op, first, fnode, second, snode, os, node, leftFirst) ==
    UNION { IF o1.res = Trap
            THEN {[o1 EXCEPT !.trace = <<CallEv(node, os)>> \o o1.trace]}
            ELSE UNION {
                IF o2.res = Trap
                THEN {[o2 EXCEPT !.trace =
                           <<CallEv(node, os)>> \o o1.trace \o o2.trace]}
                ELSE { [res |-> v, objs |-> o2.objs,
                        trace |-> <<CallEv(node, os)>> \o o1.trace \o o2.trace
                                  \o <<ApplyEv(node)>>] :
                       v \in IF leftFirst
                             THEN NativeBinary(op, o1.res, o2.res)
                             ELSE NativeBinary(op, o2.res, o1.res) } :
                o2 \in Invoke(second, o1.objs, snode) } :
            o1 \in Invoke(first, os, fnode) }

\* (a variant: both arguments of the operator call _left)
binary_operator_mapper_invoke_left_twice(m, os, node) ==
    Sequenced(m.op, m.left, 2 * node, m.left, 2 * node, os, node, TRUE)

\* binary_operator_mapper::operator(): the two operand calls are the
\* arguments of one function call, which the language sequences in either
\* order.
binary_operator_mapper_invoke(m, os, node) ==
    Sequenced(m.op, m.left, 2 * node, m.right, 2 * node + 1, os, node, TRUE)
    \cup
    Sequenced(m.op, m.right, 2 * node + 1, m.left, 2 * node, os, node, FALSE)

Invoke(m, os, node) ==
    CASE m.kind = "argument_mapper" ->
            {argument_mapper_invoke(m.Index, os, node)}
      [] m.kind = "value_mapper" ->
            {value_mapper_invoke(m.value, os, node)}
      [] m.kind = "unary_operator_mapper" ->
            unary_operator_mapper_invoke(m, os, node)
      [] m.kind = "binary_operator_mapper" ->
            binary_operator_mapper_invoke(m, os, node)

(***************************************************************************)
(* The overloaded operators.                                               *)
(***************************************************************************)
\* (a variant: the overload is not constrained)
binary_operator_enabled_always(left, right) == TRUE

\* enable_if_t<is_mapper_v<Left> || is_mapper_v<Right>>
binary_operator_enabled(left, right) == is_mapper_v(left) \/ is_mapper_v(right)

\* enable_if_t<is_mapper_v<Type>>
unary_operator_enabled(value) == is_mapper_v(value)

\* operator+ ... operator^ : the composer of the two operands
operator_binary(op, left, right) == binary_operator_mapper(op, left, right)

\* operator-, operator!, operator~ : the composer of the operand
operator_unary(op, value) == unary_operator_mapper(op, value)

(***************************************************************************)
(* Inputs.                                                                 *)
(***************************************************************************)
Object(cat, value) == [cat |-> cat, ty |-> value.ty, v |-> value.v]

ArgLists(objects, lens) == UNION { [1 .. n -> objects] : n \in lens }

\* the values of the $val(...) and plain operands of an expression
LeafValues == {Int_(2), Str_(1)}

\* the arguments of the calls of a composer
ArgObjects ==
    {Object("lvalue", Int_(-7)), Object("lvalue", Int_(0)),
     Object("lvalue", Bool_(TRUE)), Object("lvalue", Str_(1)),
     Object("rvalue", Str_(1))}

CallArgs == ArgLists(ArgObjects, 0 .. MaxArgs)

\* the operators, values and arguments of the nested expressions
TreeBinaryOps == {"plus", "divides"}
TreeUnaryOps == {"logical_not"}
TreeValues == {Int_(2), Str_(1)}
TreeObjects == {Object("lvalue", Int_(0)), Object("rvalue", Str_(1))}
TreeArgs == ArgLists(TreeObjects, 0 .. MaxArgs)

\* the arguments of the calls of a selector or a value wrapper alone: at
\* position i the i-th value of one of four families
LeafObject(p, i) ==
    CASE p = 1 -> Object("lvalue", Int_(i))
      [] p = 2 -> Object("rvalue", Str_(i))
      [] p = 3 -> Object("const", Int_(100 - i))
      [] p = 4 ->
            Object(IF i % 3 = 0 THEN "lvalue"
                   ELSE IF i % 3 = 1 THEN "rvalue" ELSE "const",
                   IF i % 2 = 0 THEN Str_(i) ELSE Int_(-i))

LeafArgs ==
    { [i \in 1 .. n |-> LeafObject(p, i)] :
      n \in 0 .. NumSelectors + ExtraArgs, p \in 1 .. 4 }

LeafVals == {Int_(5), Str_(2), Bool_(TRUE)}

(***************************************************************************)
(* The state machine: an expression is written operand by operand, the     *)
(* operators build composers, and a mapper is called.                      *)
(***************************************************************************)
NoLast == [op |-> "none", left |-> NoOperand, right |-> NoOperand]

Init ==
    /\ mapper = NoOperand
    /\ operand = NoOperand
    /\ args = <<>>
    /\ objs = <<>>
    /\ result = None
    /\ trace = <<>>
    /\ last = NoLast
    /\ pc = "build"

Place(x) ==
    /\ pc = "build"
    /\ IF mapper = NoOperand
       THEN mapper' = x /\ UNCHANGED operand
       ELSE operand = NoOperand /\ operand' = x /\ UNCHANGED mapper
    /\ UNCHANGED <<args, objs, result, trace, last, pc>>

\* $k is written
UseSelector(k) == Place(Selector(k))

\* $val(v) is written
UseVal(v) == Place(Val(v))

\* a plain value v is written
UsePlain(v) == Place(PlainValue(v))

\* the expression so far is dropped
Discard ==
    /\ pc = "build"
    /\ mapper # NoOperand
    /\ mapper' = NoOperand
    /\ operand' = NoOperand
    /\ last' = NoLast
    /\ UNCHANGED <<args, objs, result, trace, pc>>

\* left OP right is written, left and right the two operands in either
\* order: the overload builds a composer when it is enabled, the native
\* operator computes a value otherwise.
OperatorBinary(op, swap, depth) ==
    LET left == IF swap THEN operand ELSE mapper
        right == IF swap THEN mapper ELSE operand
    IN  /\ pc = "build"
        /\ mapper # NoOperand
        /\ operand # NoOperand
        /\ last' = [op |-> op, left |-> left, right |-> right]
        /\ IF binary_operator_enabled(left, right)
           THEN /\ Depth(operator_binary(op, left, right)) <= depth
                /\ mapper' = operator_binary(op, left, right)
                /\ operand' = NoOperand
                /\ UNCHANGED <<result, pc>>
           ELSE /\ BinaryType(op, left.value.ty, right.value.ty) # "ill"
                /\ \E v \in NativeBinary(op, left.value, right.value) :
                        result' = v
                /\ pc' = "native"
                /\ UNCHANGED <<mapper, operand>>
        /\ UNCHANGED <<args, objs, trace>>

\* OP value is written
OperatorUnary(op, depth) ==
    /\ pc = "build"
    /\ mapper # NoOperand
    /\ operand = NoOperand
    /\ last' = [op |-> op, left |-> mapper, right |-> NoOperand]
    /\ IF unary_operator_enabled(mapper)
       THEN /\ Depth(operator_unary(op, mapper)) <= depth
            /\ mapper' = operator_unary(op, mapper)
            /\ UNCHANGED <<result, pc>>
       ELSE /\ UnaryType(op, mapper.value.ty) # "ill"
            /\ \E v \in NativeUnary(op, mapper.value) : result' = v
            /\ pc' = "native"
            /\ UNCHANGED mapper
    /\ UNCHANGED <<operand, args, objs, trace>>

\* mapper(a...): a viable call runs to one of its outcomes, a call that is
\* not viable is rejected when the program is compiled.
Call(a) ==
    /\ pc = "build"
    /\ is_mapper_v(mapper)
    /\ operand = NoOperand
    /\ args' = a
    /\ IF Viable(mapper, a)
       THEN \E o \in Invoke(mapper, a, 1) :
                /\ objs' = o.objs
                /\ result' = o.res
                /\ trace' = o.trace
                /\ pc' = "invoked"
       ELSE /\ objs' = a
            /\ result' = None
            /\ trace' = <<>>
            /\ pc' = "rejected"
    /\ UNCHANGED <<mapper, operand, last>>

\* argument_mapper<Index>::call(a...), the static member, called directly
CallStatic(a) ==
    /\ pc = "build"
    /\ mapper.kind = "argument_mapper"
    /\ operand = NoOperand
    /\ args' = a
    /\ objs' = a
    /\ trace' = <<>>
    /\ IF argument_mapper_call_viable(mapper.Index, Len(a))
       THEN /\ result' = [ty |-> "ref",
                          v |-> argument_mapper_call(mapper.Index, Refs(a))]
            /\ pc' = "invoked"
       ELSE /\ result' = None
            /\ pc' = "rejected"
    /\ UNCHANGED <<mapper, operand, last>>

\* auto &&r = <the call>; r += 1 (a string: r += "a"): through a reference
\* the caller's object changes, otherwise the temporary the call returned.
Mutate ==
    /\ pc = "invoked"
    /\ mapper.kind = "argument_mapper"
    /\ IF result.ty = "ref"
       THEN /\ objs[result.v].cat # "const"
            /\ objs' = [objs EXCEPT ![result.v].v = @ + 1]
            /\ UNCHANGED result
       ELSE /\ result' = [result EXCEPT !.v = @ + 1]
            /\ UNCHANGED objs
    /\ pc' = "mutated"
    /\ UNCHANGED <<mapper, operand, args, trace, last>>

\* the statement is over
Return ==
    /\ pc \in {"native", "invoked", "rejected", "mutated"}
    /\ pc' = "build"
    /\ args' = <<>>
    /\ objs' = <<>>
    /\ result' = None
    /\ trace' = <<>>
    /\ UNCHANGED <<mapper, operand, last>>

\* Expressions of one operator over selectors, value wrappers and plain
\* values, every operator of the overload set.
Next ==
    \/ \E k \in 1 .. MaxArgs + 1 : UseSelector(k)
    \/ \E v \in LeafValues : UseVal(v)
    \/ \E v \in LeafValues : UsePlain(v)
    \/ \E op \in BinaryOps, swap \in BOOLEAN : OperatorBinary(op, swap, 1)
    \/ \E op \in UnaryOps : OperatorUnary(op, 1)
    \/ \E a \in CallArgs : Call(a)
    \/ Discard
    \/ Return

Spec == Init /\ [][Next]_vars

\* Nested expressions over a few operators.
NextTree ==
    \/ \E k \in 1 .. MaxArgs : UseSelector(k)
    \/ \E v \in TreeValues : UseVal(v)
    \/ \E v \in TreeValues : UsePlain(v)
    \/ \E op \in TreeBinaryOps, swap \in BOOLEAN :
            OperatorBinary(op, swap, MaxDepth)
    \/ \E op \in TreeUnaryOps : OperatorUnary(op, MaxDepth)
    \/ \E a \in TreeArgs : Call(a)
    \/ Discard
    \/ Return

SpecTree == Init /\ [][NextTree]_vars

\* The selectors and the value wrappers alone.
NextLeaf ==
    \/ \E k \in 1 .. NumSelectors : UseSelector(k)
    \/ \E v \in LeafVals : UseVal(v)
    \/ \E a \in LeafArgs : Call(a)
    \/ \E a \in LeafArgs : CallStatic(a)
    \/ Mutate
    \/ Discard
    \/ Return

SpecLeaf == Init /\ [][NextLeaf]_vars

(***************************************************************************)
(* Properties.                                                             *)
(***************************************************************************)
ValueOf(o) == ValueOfObject(o)

\* operator() ran (the static member call leaves no event)
ViaOperator == trace # <<>>

Called == pc \in {"invoked", "rejected", "mutated"}

\* C1: for every named selector $k (argument_mapper<k - 1>) and every
\* argument list of at least k elements, the call returns the k-th
\* argument, its type and value untransformed; the static member call
\* returns the reference to that same argument.
C1_SelectorReturnsArgument ==
    \A k \in 1 .. NumSelectors :
        (pc = "invoked" /\ mapper = Selector(k)) =>
            /\ Len(args) >= k
            /\ IF ViaOperator
               THEN result = ValueOf(args[k])
               ELSE result = [ty |-> "ref", v |-> k]

C1_Witness ==
    /\ pc = "invoked"
    /\ mapper = Selector(NumSelectors)
    /\ Len(args) > NumSelectors
    /\ ViaOperator
    /\ args[NumSelectors].cat = "rvalue"
    /\ result = Str_(NumSelectors)

\* C2: a value wrapper is callable with every argument list (the empty one
\* too), returns the value it holds since it was built, and touches no
\* argument.
C2_ValueWrapperReturnsStored ==
    (Called /\ mapper.kind = "value_mapper") =>
        /\ pc # "rejected"
        /\ pc = "invoked" => result = mapper.value
        /\ objs = args

C2_Witness ==
    /\ pc = "invoked"
    /\ mapper = Val(Str_(2))
    /\ Len(args) > 0
    /\ ValueOf(args[1]) # result
    /\ result = Str_(2)

\* C6 as stated: after Selector<N> is invoked on a list whose N-th argument
\* is passed as a mutable reference and its result is written through, the
\* original object holds the written value.
C6_ResultRefersToOriginal ==
    (/\ pc = "mutated"
     /\ mapper.kind = "argument_mapper"
     /\ ViaOperator
     /\ args[mapper.Index + 1].cat = "lvalue") =>
        objs[mapper.Index + 1].v = args[mapper.Index + 1].v + 1

\* C6 amended: the static member call returns a reference to the original
\* argument, so a write through it changes the original; operator() returns
\* a copy (a return type of auto), so a write through its result changes
\* the copy and leaves an argument passed by reference as it was.
C6_CallRefersOperatorCopies ==
    (pc = "mutated" /\ mapper.kind = "argument_mapper") =>
        LET n == mapper.Index + 1
        IN  IF ViaOperator
            THEN /\ result.ty # "ref"
                 /\ result.v = args[n].v + 1
                 /\ args[n].cat # "rvalue" => objs = args
            ELSE /\ result = [ty |-> "ref", v |-> n]
                 /\ objs = [args EXCEPT ![n].v = @ + 1]

C6_Witness ==
    /\ pc = "mutated"
    /\ mapper = Selector(2)
    /\ ViaOperator
    /\ Len(args) = 3
    /\ args[2].cat = "lvalue"
    /\ objs = args
    /\ result.v = args[2].v + 1

\* C8: Selector<N> is callable only with at least N + 1 arguments; with
\* fewer the call is rejected and nothing runs: no value, no event, no
\* argument touched.  With enough arguments it returns a value.
C8_SelectorNeedsEnoughArguments ==
    (Called /\ mapper.kind = "argument_mapper") =>
        /\ (pc = "rejected") = (Len(args) < mapper.Index + 1)
        /\ pc = "rejected" =>
                result = None /\ trace = <<>> /\ objs = args
        /\ pc = "invoked" => result.ty \in {"int", "bool", "str", "ref"}
        /\ (pc = "invoked" /\ result.ty = "ref") => result.v >= 1

C8_Witness ==
    /\ pc = "rejected"
    /\ mapper = Selector(3)
    /\ Len(args) = 2
    /\ result = None

\* the results of m called on its own with the argument list a
Results(m, a) == { o.res : o \in Invoke(m, a, 1) }

\* the native operator on two results, a trapped operand ending the run
NativeOn(op, x, y) ==
    IF x = Trap \/ y = Trap THEN {Trap} ELSE NativeBinary(op, x, y)

NativeOn1(op, x) == IF x = Trap THEN {Trap} ELSE NativeUnary(op, x)

IsBinary(m) == m.kind = "binary_operator_mapper"
IsUnary(m) == m.kind = "unary_operator_mapper"

\* where in the trace tr mapper node was called, 0 if nowhere
CallPositions(tr, node) ==
    { i \in DOMAIN tr : tr[i].node = node /\ tr[i].ev = "call" }
ApplyPositions(tr, node) ==
    { i \in DOMAIN tr : tr[i].node = node /\ tr[i].ev = "apply" }

\* C3 as stated: the call of a composer returns the native operator
\* applied to what its operands return when each is called with the
\* argument list as passed.
C3_ComposerIsNativeOperator ==
    pc = "invoked" =>
        /\ IsBinary(mapper) =>
                result \in UNION { NativeOn(mapper.op, x, y) :
                                   x \in Results(mapper.left, args),
                                   y \in Results(mapper.right, args) }
        /\ IsUnary(mapper) =>
                result \in UNION { NativeOn1(mapper.op, x) :
                                   x \in Results(mapper.value, args) }

\* C4 as stated: in every call of a binary composer the left operand is
\* called before the right operand.
C4_LeftBeforeRight ==
    (pc = "invoked" /\ IsBinary(mapper)) =>
        \A i \in CallPositions(trace, 2), j \in CallPositions(trace, 3) :
            i < j

\* C4 amended: in every call of a binary composer that applies its
\* operator, each of the two operands was called exactly once, after the
\* composer was entered and before the operator was applied; which of the
\* two is called first is not fixed.  The operator is not applied only when
\* an operand's call ended the run (a division by zero); no operand is
\* ever called twice.
C4_OperandsOnceBeforeOperator ==
    (pc = "invoked" /\ IsBinary(mapper)) =>
        /\ trace[1] = [node |-> 1, ev |-> "call", os |-> args]
        /\ Cardinality(CallPositions(trace, 2)) <= 1
        /\ Cardinality(CallPositions(trace, 3)) <= 1
        /\ IF ApplyPositions(trace, 1) = {}
           THEN result = Trap
           ELSE /\ ApplyPositions(trace, 1) = {Len(trace)}
                /\ Cardinality(CallPositions(trace, 2)) = 1
                /\ Cardinality(CallPositions(trace, 3)) = 1
                /\ \A i \in CallPositions(trace, 2)
                            \cup CallPositions(trace, 3) :
                        1 < i /\ i < Len(trace)

C4_Witness ==
    /\ pc = "invoked"
    /\ IsBinary(mapper)
    /\ IsBinary(mapper.left)
    /\ \E i \in CallPositions(trace, 2), j \in CallPositions(trace, 3) :
            j < i
    /\ ApplyPositions(trace, 1) = {Len(trace)}
    /\ result = Int_(4)

\* C5 as stated: in every call of a binary composer both operands receive
\* the argument list as it was passed to the composer.
C5_SameArgumentsForBoth ==
    (pc = "invoked" /\ IsBinary(mapper)) =>
        \A i \in CallPositions(trace, 2) \cup CallPositions(trace, 3) :
            trace[i].os = args

holds(member, x) ==
    IF is_mapper_v(x) THEN member = x
    ELSE member.kind = "value_mapper" /\ member.value = x.value

\* C7: an overloaded operator applies exactly when an operand is a mapper;
\* it then returns a composer that holds the operands, and calls none of
\* them; for plain operands the native operator computes its value.
C7_OverloadOnlyForMappers ==
    /\ last.op \in BinaryOps =>
        IF is_mapper_v(last.left) \/ is_mapper_v(last.right)
        THEN /\ IsBinary(mapper)
             /\ mapper.op = last.op
             /\ holds(mapper.left, last.left)
             /\ holds(mapper.right, last.right)
             /\ pc # "native"
        ELSE /\ mapper.kind = "plain"
             /\ operand.kind = "plain"
             /\ pc = "native" =>
                    result \in NativeBinary(last.op, last.left.value,
                                            last.right.value)
    /\ last.op \in UnaryOps =>
        IF is_mapper_v(last.left)
        THEN /\ IsUnary(mapper)
             /\ mapper.op = last.op
             /\ holds(mapper.value, last.left)
             /\ pc # "native"
        ELSE /\ mapper.kind = "plain"
             /\ pc = "native" => result \in NativeUnary(last.op, last.left.value)
    /\ pc \in {"build", "native"} => trace = <<>> /\ objs = <<>>
    /\ pc = "build" => result = None

C7_Witness ==
    /\ pc = "native"
    /\ last = [op |-> "modulus", left |-> PlainValue(Int_(2)),
               right |-> PlainValue(Int_(2))]
    /\ result = Int_(0)

\* C9: a composer keeps a mapper operand as it is and a plain operand c as
\* a value wrapper of c, so that the call of m OP c returns the native
\* operator on what m returns for the argument list and c, and the call of
\* c OP m the native operator on c and what m returns.
C9_PlainOperandIsWrapped ==
    (/\ IsBinary(mapper)
     /\ last.op = mapper.op
     /\ is_mapper_v(last.left) # is_mapper_v(last.right)) =>
        IF is_mapper_v(last.left)
        THEN /\ mapper.left = last.left
             /\ pc = "invoked" =>
                    result \in UNION { NativeOn(last.op, x, last.right.value) :
                                       x \in Results(last.left, args) }
        ELSE /\ mapper.right = last.right
             /\ pc = "invoked" =>
                    result \in UNION { NativeOn(last.op, last.left.value, y) :
                                       y \in Results(last.right, args) }

C9_Witness ==
    /\ pc = "invoked"
    /\ IsBinary(mapper)
    /\ IsBinary(last.left)
    /\ last.left.left = Selector(1)
    /\ last.left.right = Selector(1)
    /\ last.right = PlainValue(Str_(1))
    /\ Len(args) = 1
    /\ args[1].cat = "rvalue"
    /\ result = Str_(2)

\* every selector of the tree m selects among n arguments
RECURSIVE SelectorsWithin(_, _)
SelectorsWithin(m, n) ==
    CASE m.kind = "argument_mapper" -> m.Index < n
      [] IsUnary(m) -> SelectorsWithin(m.value, n)
      [] IsBinary(m) -> SelectorsWithin(m.left, n) /\ SelectorsWithin(m.right, n)
      [] OTHER -> TRUE

RECURSIVE OnlyValueWrappers(_)
OnlyValueWrappers(m) ==
    CASE m.kind = "value_mapper" -> TRUE
      [] IsUnary(m) -> OnlyValueWrappers(m.value)
      [] IsBinary(m) -> OnlyValueWrappers(m.left) /\ OnlyValueWrappers(m.right)
      [] OTHER -> FALSE

\* the type of a tree of value wrappers: every operator applies to its
\* operands' types
RECURSIVE OperatorsApply(_)
OperatorsApply(m) ==
    CASE m.kind = "value_mapper" -> m.value.ty
      [] IsUnary(m) ->
            IF OperatorsApply(m.value) = "ill" THEN "ill"
            ELSE UnaryType(m.op, OperatorsApply(m.value))
      [] IsBinary(m) ->
            IF OperatorsApply(m.left) = "ill" \/ OperatorsApply(m.right) = "ill"
            THEN "ill"
            ELSE BinaryType(m.op, OperatorsApply(m.left),
                            OperatorsApply(m.right))

IsComposer(m) == IsUnary(m) \/ IsBinary(m)

NothingRan == result = None /\ trace = <<>> /\ objs = args

\* the part of C10 about selectors: a composer is called only with a list
\* every selector of its tree can select from, and a call with a shorter
\* list is rejected before any part of the tree runs
SelectorsDecide ==
    /\ pc = "invoked" => SelectorsWithin(mapper, Len(args))
    /\ ~SelectorsWithin(mapper, Len(args)) => pc = "rejected"
    /\ pc = "rejected" => NothingRan

\* C10 as stated: with the above, a composer of value wrappers alone is
\* callable with every argument list.
C10_ComposerViability ==
    (Called /\ IsComposer(mapper)) =>
        /\ SelectorsDecide
        /\ OnlyValueWrappers(mapper) => pc # "rejected"

\* C10 amended: a composer of value wrappers alone is callable with every
\* argument list if each operator of it applies to the types of its
\* operands' results, and with no argument list otherwise.
C10_ComposerViabilityTyped ==
    (Called /\ IsComposer(mapper)) =>
        /\ SelectorsDecide
        /\ OnlyValueWrappers(mapper) =>
                (pc = "rejected") = (OperatorsApply(mapper) = "ill")

C10_Witness ==
    /\ pc = "rejected"
    /\ IsBinary(mapper)
    /\ IsBinary(mapper.left)
    /\ mapper.left.right = Selector(2)
    /\ mapper.right = Val(Int_(2))
    /\ Len(args) = 1
    /\ NothingRan

====
